---------------------------- MODULE Spec2Model ----------------------------
(***************************************************************************)
(* A model of the two ball overlays of the repository:                     *)
(*   - NeoballPhysics       (src/unnamed/part_000): draggable 3D balls     *)
(*   - NeoballBallsOverlay  (src/js/balls-overlay.js): floating sprites    *)
(* JavaScript runs every handler to completion, so each handler, public    *)
(* method and frame callback is one atomic action.  The rendering and      *)
(* physics libraries are modelled by what the code relies on: a scene and  *)
(* a world are sets of objects, a world step moves the bodies of the world *)
(* when time has passed, a clock measures the time since it was read.      *)
(* Vectors and quaternions are abstracted to the values of Vec, 0 being    *)
(* the zero vector (the identity rotation).                                *)
(***************************************************************************)
EXTENDS Integers, Sequences, FiniteSets, TLC

VARIABLES
    script,          \* which module the page loaded: "physics" or "overlay"
    page,            \* what the page does: how many overlays it makes, with which ballCount
    missing,         \* the textures of BALL_TEXTURES that fail to load
    OVERLAY_INSTANCE_ID, \* the instance id counter of balls-overlay.js
    overlays,        \* the NeoballBallsOverlay instances, in construction order
    phase,           \* NeoballPhysics: "none", "loading" (loadTexture pending), "ready"
    balls,           \* this.balls
    scene,           \* objects in this.scene
    world,           \* bodies in this.world
    selectedBall,    \* mesh id of this.selectedBall, 0 for null
    isDragging,      \* this.isDragging
    lastMouse,       \* this.lastMouse
    dragVelocity,    \* this.dragVelocity
    clock,           \* this.clock
    hidden,          \* document.hidden
    listeners,       \* event listeners registered on window, document and the canvas
    rafPending,      \* frame callbacks requested and not yet run
    containerAttached, \* this.containerEl is attached to its parent
    destroyed,       \* destroy() has returned
    elapsed,         \* time passed since the last physics step
    hiddenTime,      \* the part of elapsed that passed while the document was hidden
    config,          \* this.config of the NeoballPhysics instance
    last             \* what the last operation did (its return value, the frame's work)

env == <<script, page, missing>>
overlayVars == <<OVERLAY_INSTANCE_ID, overlays>>

vars == <<env, overlayVars, config, phase, balls, scene, world, selectedBall, isDragging, lastMouse,
          dragVelocity, clock, hidden, listeners, rafPending, containerAttached,
          destroyed, elapsed, hiddenTime, last>>

---------------------------------------------------------------------------
(* Bounds *)

MaxBalls == 2        \* most balls an instance holds
MaxElapsed == 1      \* most time units between two physics steps
MaxSeed == 1         \* seeds of the pseudo-random stream behind Math.random()
MaxShuffleSeed == 7  \* seeds of the stream that shuffles the overlay's textures
MaxOverlays == 2     \* most overlays a page makes
MaxBallCount == 13   \* largest ballCount option a page passes to an overlay

(* Abstract values of a vector or quaternion; 0 is zero / identity. *)
Vec == {0, 1}

Abs(n) == IF n < 0 THEN -n ELSE n
Max(a, b) == IF a < b THEN b ELSE a
Min(a, b) == IF a < b THEN a ELSE b

---------------------------------------------------------------------------
(* Math.random(): a multiplicative-congruential stream; Rnd(s, k) is the   *)
(* k-th draw of the stream seeded with s, scaled to 0 .. n-1.              *)

RandMod == 16

RECURSIVE RandState(_, _)
RandState(s, k) == IF k = 0 THEN s % RandMod
                   ELSE (5 * RandState(s, k - 1) + 3) % RandMod

Rnd(s, k, n) == (RandState(s, k + 1) * n) \div RandMod

---------------------------------------------------------------------------
(* Objects of the libraries *)

Lights == {<<"light", 1>>, <<"light", 2>>, <<"light", 3>>}
Walls == {<<"wall", 1>>, <<"wall", 2>>, <<"wall", 3>>, <<"wall", 4>>}
MeshOf(b) == <<"mesh", b.id>>
BodyOf(b) == <<"body", b.id>>

NoFrame == [stepped |-> FALSE, synced |-> FALSE, rendered |-> FALSE,
            scheduled |-> 0, delta |-> 0, visibleTime |-> 0, hiddenTime |-> 0]

Did(op, ret, invoked, frame) ==
    [op |-> op, ret |-> ret, invoked |-> invoked, frame |-> frame, hits |-> <<>>]

(* THREE.Clock, with age = now - oldTime. *)
ClockStart(c) == [c EXCEPT !.running = TRUE, !.age = 0]
ClockGetDelta(c) ==
    IF c.autoStart /\ ~c.running THEN [clock |-> ClockStart(c), diff |-> 0]
    ELSE IF c.running THEN [clock |-> [c EXCEPT !.age = 0], diff |-> c.age]
    ELSE [clock |-> c, diff |-> 0]
ClockTick(c) == [c EXCEPT !.age = @ + 1]
ClockStop(c) == [ClockGetDelta(c).clock EXCEPT !.running = FALSE, !.autoStart = FALSE]

NewBody(x, v, w) == [position |-> x, quaternion |-> 0, velocity |-> v,
                     angularVelocity |-> w, sleeping |-> FALSE]

(* An id no live object of the instance has. *)
FreshId(bs, sel) ==
    CHOOSE n \in 1..(Len(bs) + 2) :
        /\ n # sel
        /\ \A i \in 1..Len(bs) : bs[i].id # n
        /\ \A m \in 1..(n - 1) : m = sel \/ \E i \in 1..Len(bs) : bs[i].id = m

---------------------------------------------------------------------------
(* NeoballPhysics *)

(* createBalls(): config.ballCount balls, each with a random position,     *)
(* rotation, velocity and spin; mesh and body start at the same position.  *)
RECURSIVE createBallsFrom(_, _, _, _, _)
createBallsFrom(bs, sel, seed, i, n) ==
    IF i >= n THEN bs
    ELSE LET id == FreshId(bs, sel)
             x == Rnd(seed, 4 * i, 2)
             ball == [id |-> id, index |-> i,
                      mesh |-> [position |-> x, quaternion |-> Rnd(seed, 4 * i + 1, 2)],
                      body |-> NewBody(x, Rnd(seed, 4 * i + 2, 2), Rnd(seed, 4 * i + 3, 2))]
         IN createBallsFrom(Append(bs, ball), sel, seed, i + 1, n)

createBalls(bs, sel, seed, n) == createBallsFrom(bs, sel, seed, 0, n)

MeshesOf(bs) == {MeshOf(bs[i]) : i \in 1..Len(bs)}
BodiesOf(bs) == {BodyOf(bs[i]) : i \in 1..Len(bs)}

(* The handlers bindEvents() registers.  Every .bind(this) makes a new     *)
(* function object; site is the source line of the bind expression.        *)
Listener(target, type, handler, site) ==
    [target |-> target, type |-> type, handler |-> handler, site |-> site]

bindEvents ==
    { Listener("canvas", "mousedown", "onPointerDown", 315),
      Listener("window", "mousemove", "onPointerMove", 316),
      Listener("window", "mouseup", "onPointerUp", 317),
      Listener("canvas", "touchstart", "onTouchStart", 320),
      Listener("window", "touchmove", "onTouchMove", 321),
      Listener("window", "touchend", "onTouchEnd", 322),
      Listener("window", "touchcancel", "onTouchEnd", 323),
      Listener("window", "resize", "onResize", 326),
      Listener("document", "visibilitychange", "onVisibilityChange", 329) }

(* EventTarget.removeEventListener: removes the listener with this very    *)
(* callback object, if it is registered.                                   *)
removeEventListener(ls, l) == ls \ {l}

Registered(target, type) ==
    \E l \in listeners : l.target = target /\ l.type = type

(* world.step(timeStep, delta, maxSubSteps): with no time passed no        *)
(* substep runs; otherwise every body of the world gets the transform and  *)
(* motion the solver computes, outcome[i] for the i-th ball.  StepResults  *)
(* is a sample of what the solver can compute: the bodies end at rest      *)
(* (asleep) or moving, and neighbouring bodies end in different places.    *)
StepResults(n) ==
    { [i \in 1..n |->
        [position |-> (x + i) % 2, quaternion |-> (x + i) % 2, velocity |-> m,
         angularVelocity |-> m, sleeping |-> (m = 0)]] : x \in Vec, m \in Vec }

worldStep(bs, w, delta, outcome) ==
    [i \in 1..Len(bs) |->
        IF delta > 0 /\ BodyOf(bs[i]) \in w
        THEN [bs[i] EXCEPT !.body = outcome[i]]
        ELSE bs[i]]

(* Sync meshes with physics bodies. *)
syncMeshes(bs) ==
    [i \in 1..Len(bs) |->
        [bs[i] EXCEPT !.mesh = [position |-> bs[i].body.position,
                                quaternion |-> bs[i].body.quaternion]]]

(* animate(): one frame.  Returns the balls, the clock and what was done. *)
animateMutSyncFirst(bs, w, c, hid, el, ht, outcome) ==
    IF hid
    THEN [balls |-> bs, clock |-> c, frame |-> [NoFrame EXCEPT !.scheduled = 1]]
    ELSE LET d == ClockGetDelta(c)
         IN [balls |-> worldStep(syncMeshes(bs), w, d.diff, outcome),
             clock |-> d.clock,
             frame |-> [stepped |-> TRUE, synced |-> TRUE, rendered |-> TRUE,
                        scheduled |-> 1, delta |-> d.diff,
                        visibleTime |-> el - ht, hiddenTime |-> ht]]

animate(bs, w, c, hid, el, ht, outcome) ==
    IF hid
    THEN [balls |-> bs, clock |-> c, frame |-> [NoFrame EXCEPT !.scheduled = 1]]
    ELSE LET d == ClockGetDelta(c)
         IN [balls |-> syncMeshes(worldStep(bs, w, d.diff, outcome)),
             clock |-> d.clock,
             frame |-> [stepped |-> TRUE, synced |-> TRUE, rendered |-> TRUE,
                        scheduled |-> 1, delta |-> d.diff,
                        visibleTime |-> el - ht, hiddenTime |-> ht]]

(* The results a step can have: none but the present one when no time has *)
(* passed since the clock was read.                                        *)
Outcomes(bs, c, hid) ==
    IF hid \/ ClockGetDelta(c).diff = 0
    THEN {[i \in 1..Len(bs) |-> bs[i].body]}
    ELSE StepResults(Len(bs))

(* init(): the continuation of loadTexture(): createBalls, bindEvents and  *)
(* the first animate().                                                    *)
TextureLoaded ==
    /\ script = "physics" /\ phase = "loading"
    /\ \E seed \in 0..MaxSeed :
       \E outcome \in Outcomes(createBalls(balls, selectedBall, seed, config.ballCount),
                               clock, hidden) :
         LET created == createBalls(balls, selectedBall, seed, config.ballCount)
             f == animate(created, world \cup BodiesOf(created), clock, hidden,
                          elapsed, hiddenTime, outcome)
         IN /\ balls' = f.balls
            /\ scene' = scene \cup MeshesOf(created)
            /\ world' = world \cup BodiesOf(created)
            /\ clock' = f.clock
            /\ rafPending' = rafPending + f.frame.scheduled
            /\ elapsed' = IF f.frame.stepped THEN 0 ELSE elapsed
            /\ hiddenTime' = IF f.frame.stepped THEN 0 ELSE hiddenTime
            /\ last' = Did("animate", 0, FALSE, f.frame)
    /\ listeners' = listeners \cup bindEvents
    /\ phase' = "ready"
    /\ UNCHANGED <<env, overlayVars, config, selectedBall, isDragging, lastMouse, dragVelocity,
                   hidden, containerAttached, destroyed>>

(* A frame callback requested by requestAnimationFrame runs. *)
Animate ==
    /\ script = "physics" /\ rafPending > 0
    /\ \E outcome \in Outcomes(balls, clock, hidden) :
         LET f == animate(balls, world, clock, hidden, elapsed, hiddenTime, outcome)
         IN /\ balls' = f.balls
            /\ clock' = f.clock
            /\ rafPending' = rafPending - 1 + f.frame.scheduled
            /\ elapsed' = IF f.frame.stepped THEN 0 ELSE elapsed
            /\ hiddenTime' = IF f.frame.stepped THEN 0 ELSE hiddenTime
            /\ last' = Did("animate", 0, FALSE, f.frame)
    /\ UNCHANGED <<env, overlayVars, config, phase, scene, world, selectedBall, isDragging,
                   lastMouse, dragVelocity, hidden, listeners, containerAttached,
                   destroyed>>

(* Time passes. *)
Tick ==
    /\ elapsed < MaxElapsed
    /\ elapsed' = elapsed + 1
    /\ hiddenTime' = IF hidden THEN hiddenTime + 1 ELSE hiddenTime
    /\ clock' = IF phase = "none" THEN clock ELSE ClockTick(clock)
    /\ overlays' = [i \in 1..Len(overlays) |->
                        [overlays[i] EXCEPT !.clock = ClockTick(@)]]
    /\ UNCHANGED <<env, OVERLAY_INSTANCE_ID, config, phase, balls, scene, world, selectedBall, isDragging,
                   lastMouse, dragVelocity, hidden, listeners, rafPending,
                   containerAttached, destroyed, last>>

(* addBall(): returns this.balls.length. *)
addBallMutNoBody(bs, sc, w, sel, seed) ==
    LET id == FreshId(bs, sel)
        x == Rnd(seed, 0, 2)
        ball == [id |-> id, index |-> Len(bs),
                 mesh |-> [position |-> x, quaternion |-> Rnd(seed, 1, 2)],
                 body |-> NewBody(x, 0, 0)]
    IN [balls |-> Append(bs, ball), scene |-> sc \cup {MeshOf(ball)},
        world |-> w, ret |-> Len(bs) + 1]

addBall(bs, sc, w, sel, seed) ==
    LET id == FreshId(bs, sel)
        x == Rnd(seed, 0, 2)
        ball == [id |-> id, index |-> Len(bs),
                 mesh |-> [position |-> x, quaternion |-> Rnd(seed, 1, 2)],
                 body |-> NewBody(x, 0, 0)]
    IN [balls |-> Append(bs, ball), scene |-> sc \cup {MeshOf(ball)},
        world |-> w \cup {BodyOf(ball)}, ret |-> Len(bs) + 1]

AddBall ==
    /\ script = "physics" /\ Len(balls) < MaxBalls
    /\ \E seed \in 0..MaxSeed :
         LET r == addBall(balls, scene, world, selectedBall, seed)
         IN /\ balls' = r.balls /\ scene' = r.scene /\ world' = r.world
            /\ last' = Did("addBall", r.ret, FALSE, NoFrame)
    /\ UNCHANGED <<env, overlayVars, config, phase, selectedBall, isDragging, lastMouse,
                   dragVelocity, clock, hidden, listeners, rafPending,
                   containerAttached, destroyed, elapsed, hiddenTime>>

(* removeBall(): pops the last ball, if any; returns this.balls.length. *)
removeBall(bs, sc, w) ==
    IF Len(bs) > 0
    THEN LET ball == bs[Len(bs)]
             rest == SubSeq(bs, 1, Len(bs) - 1)
         IN [balls |-> rest, scene |-> sc \ {MeshOf(ball)},
             world |-> w \ {BodyOf(ball)}, ret |-> Len(rest)]
    ELSE [balls |-> bs, scene |-> sc, world |-> w, ret |-> Len(bs)]

RemoveBall ==
    /\ script = "physics"
    /\ LET r == removeBall(balls, scene, world)
       IN /\ balls' = r.balls /\ scene' = r.scene /\ world' = r.world
          /\ last' = Did("removeBall", r.ret, FALSE, NoFrame)
    /\ UNCHANGED <<env, overlayVars, config, phase, selectedBall, isDragging, lastMouse,
                   dragVelocity, clock, hidden, listeners, rafPending,
                   containerAttached, destroyed, elapsed, hiddenTime>>

(* getBallCount() *)
getBallCount == Len(balls)

(* destroy(): each removeEventListener is given a new bound function. *)
destroyListeners(ls) ==
    LET l1 == removeEventListener(ls, Listener("window", "resize", "onResize", 666))
        l2 == removeEventListener(l1, Listener("window", "mousemove", "onPointerMove", 667))
        l3 == removeEventListener(l2, Listener("window", "mouseup", "onPointerUp", 668))
        l4 == removeEventListener(l3, Listener("window", "touchmove", "onTouchMove", 669))
        l5 == removeEventListener(l4, Listener("window", "touchend", "onTouchEnd", 670))
    IN removeEventListener(l5,
           Listener("document", "visibilitychange", "onVisibilityChange", 671))

destroyBallsMutKeepBodies(bs, sc, w) == [scene |-> sc \ MeshesOf(bs), world |-> w]

destroyBalls(bs, sc, w) == [scene |-> sc \ MeshesOf(bs), world |-> w \ BodiesOf(bs)]

Destroy ==
    /\ script = "physics"
    /\ listeners' = destroyListeners(listeners)
    /\ LET r == destroyBalls(balls, scene, world)
       IN scene' = r.scene /\ world' = r.world
    /\ containerAttached' = FALSE
    /\ destroyed' = TRUE
    /\ last' = Did("destroy", 0, FALSE, NoFrame)
    /\ UNCHANGED <<env, overlayVars, config, phase, balls, selectedBall, isDragging, lastMouse,
                   dragVelocity, clock, hidden, rafPending, elapsed, hiddenTime>>

---------------------------------------------------------------------------
(* Input handlers of NeoballPhysics.  A handler maps the fields it uses,   *)
(* h = [balls, selectedBall, isDragging, lastMouse, dragVelocity], to      *)
(* their values when it returns.                                           *)

HandlerState == [balls |-> balls, selectedBall |-> selectedBall,
                 isDragging |-> isDragging, lastMouse |-> lastMouse,
                 dragVelocity |-> dragVelocity]

(* body.wakeUp(); body.velocity.setZero(); body.angularVelocity.setZero() *)
Grab(b) == [b EXCEPT !.sleeping = FALSE, !.velocity = 0, !.angularVelocity = 0]

(* The balls, the body of the ball whose mesh is m grabbed; a ball that    *)
(* was removed from this.balls is no longer seen by anything.              *)
Grabbed(bs, m) ==
    [i \in 1..Len(bs) |-> IF bs[i].id = m THEN [bs[i] EXCEPT !.body = Grab(@)] ELSE bs[i]]

(* The balls, the body of the dragged ball m following the pointer p. *)
Followed(bs, m, p) ==
    [i \in 1..Len(bs) |->
        IF bs[i].id = m
        THEN [bs[i] EXCEPT !.body.velocity = Abs(p - bs[i].body.position)]
        ELSE bs[i]]

(* The balls, the body of the dragged ball m thrown with velocity v. *)
Thrown(bs, m, v, spin) ==
    [i \in 1..Len(bs) |->
        IF bs[i].id = m
        THEN [bs[i] EXCEPT !.body.velocity = Abs(v),
                           !.body.angularVelocity = Max(Abs(v), spin)]
        ELSE bs[i]]

(* onPointerDown: hits is raycaster.intersectObjects(), the meshes under   *)
(* the pointer, nearest first.                                             *)
onPointerDownMutFarthest(h, p, hits) ==
    IF Len(hits) > 0
    THEN [h EXCEPT !.lastMouse = p,
                   !.selectedBall = hits[Len(hits)],
                   !.isDragging = TRUE,
                   !.balls = Grabbed(h.balls, hits[Len(hits)])]
    ELSE [h EXCEPT !.lastMouse = p]

onPointerDown(h, p, hits) ==
    IF Len(hits) > 0
    THEN [h EXCEPT !.lastMouse = p,
                   !.selectedBall = hits[1],
                   !.isDragging = TRUE,
                   !.balls = Grabbed(h.balls, hits[1])]
    ELSE [h EXCEPT !.lastMouse = p]

(* onPointerMove: the dragged body gets a velocity towards the pointer. *)
onPointerMove(h, p) ==
    IF ~h.isDragging \/ h.selectedBall = 0 THEN h
    ELSE [h EXCEPT !.dragVelocity = p - h.lastMouse,
                   !.balls = Followed(h.balls, h.selectedBall, p),
                   !.lastMouse = p]

(* onPointerUp: throws the dragged ball; spin is the last random draw. *)
onPointerUp(h, spin) ==
    LET thrown == IF h.selectedBall # 0 /\ h.isDragging
                  THEN Thrown(h.balls, h.selectedBall, h.dragVelocity, spin)
                  ELSE h.balls
    IN [h EXCEPT !.balls = thrown, !.selectedBall = 0, !.isDragging = FALSE,
                 !.dragVelocity = 0]

(* onTouchStart / onTouchMove / onTouchEnd: touches is event.touches, the  *)
(* positions of the fingers.                                               *)
onTouchStart(h, touches, hits) ==
    IF Len(touches) > 0 THEN onPointerDown(h, touches[1], hits) ELSE h

onTouchMove(h, touches) ==
    IF Len(touches) > 0 THEN onPointerMove(h, touches[1]) ELSE h

onTouchEnd(h, spin) == onPointerUp(h, spin)

(* onVisibilityChange *)
onVisibilityChangeMutResume(c, hid) ==
    IF hid THEN ClockStop(c) ELSE [c EXCEPT !.running = TRUE]

onVisibilityChange(c, hid) == IF hid THEN ClockStop(c) ELSE ClockStart(c)

Injective(f) == \A i, j \in DOMAIN f : i # j => f[i] # f[j]

(* raycaster.intersectObjects(): the ray through the pointer position p    *)
(* meets the meshes that lie at p; any of them may be the nearest.         *)
HitLists(p) ==
    LET ids == {balls[i].id : i \in {j \in 1..Len(balls) : balls[j].mesh.position = p}}
    IN {hs \in [1..Cardinality(ids) -> ids] : Injective(hs)}

TouchLists == {<<>>} \cup {<<p>> : p \in Vec}

(* An event of the given type reaches target: its handler, if one is       *)
(* registered, takes h to r.                                               *)
Handled(target, type, r, hits) ==
    LET h == IF Registered(target, type) THEN r ELSE HandlerState
    IN /\ balls' = h.balls
       /\ selectedBall' = h.selectedBall
       /\ isDragging' = h.isDragging
       /\ lastMouse' = h.lastMouse
       /\ dragVelocity' = h.dragVelocity
       /\ last' = [Did(type, 0, Registered(target, type), NoFrame) EXCEPT !.hits = hits]
       /\ UNCHANGED <<env, overlayVars, config, phase, scene, world, clock, hidden, listeners,
                      rafPending, containerAttached, destroyed, elapsed, hiddenTime>>

(* The canvas takes input only while it is in the document. *)
MouseDown ==
    /\ script = "physics" /\ containerAttached
    /\ \E p \in Vec :
       \E hits \in HitLists(p) :
         Handled("canvas", "mousedown", onPointerDown(HandlerState, p, hits), hits)

TouchStart ==
    /\ script = "physics" /\ containerAttached
    /\ \E touches \in TouchLists :
       \E hits \in IF Len(touches) > 0 THEN HitLists(touches[1]) ELSE {<<>>} :
         Handled("canvas", "touchstart", onTouchStart(HandlerState, touches, hits), hits)

MouseMove ==
    /\ script = "physics"
    /\ \E p \in Vec :
         Handled("window", "mousemove", onPointerMove(HandlerState, p), <<>>)

TouchMove ==
    /\ script = "physics"
    /\ \E touches \in TouchLists :
         Handled("window", "touchmove", onTouchMove(HandlerState, touches), <<>>)

MouseUp ==
    /\ script = "physics"
    /\ \E spin \in Vec :
         Handled("window", "mouseup", onPointerUp(HandlerState, spin), <<>>)

TouchEnd ==
    /\ script = "physics"
    /\ \E spin \in Vec, type \in {"touchend", "touchcancel"} :
         Handled("window", type, onTouchEnd(HandlerState, spin), <<>>)

(* onResize changes the camera, the renderer and the walls only. *)
Resize ==
    /\ script = "physics"
    /\ Handled("window", "resize", HandlerState, <<>>)

(* The tab is hidden or shown: document.hidden changes and the event fires. *)
VisibilityChange ==
    /\ script = "physics"
    /\ hidden' = ~hidden
    /\ clock' = IF Registered("document", "visibilitychange")
                THEN onVisibilityChange(clock, hidden')
                ELSE clock
    /\ last' = Did("visibilitychange", 0, Registered("document", "visibilitychange"),
                   NoFrame)
    /\ UNCHANGED <<env, overlayVars, config, phase, balls, scene, world, selectedBall, isDragging,
                   lastMouse, dragVelocity, listeners, rafPending, containerAttached,
                   destroyed, elapsed, hiddenTime>>

---------------------------------------------------------------------------
(* NeoballBallsOverlay *)

BALL_TEXTURES ==
    << "./balls/balls1.webp", "./balls/balls2.webp", "./balls/balls3.webp",
       "./balls/balls4.webp", "./balls/balls5.webp", "./balls/balls6.webp" >>

BALLS_PER_TEXTURE == 2

(* Where the pointer collider waits while no pointer was seen. *)
Away == 99999

(* The cap on a frame's time step, 0.1 s, is one unit of time. *)
DtCap == 1

(* An options object: a function from the keys that are given. *)
EmptyOptions == [k \in {} |-> 0]
Option(k, values) == {EmptyOptions} \cup {(k :> v) : v \in values}
Get(options, k, default) == IF k \in DOMAIN options THEN options[k] ELSE default

(* constructor(options) up to createPointerCollider(): takes the next      *)
(* instance id, builds config and creates the container element.           *)
Overlay_constructorMutNoCount(counter, options) ==
    LET instanceId == counter + 1
        defaultBallCount == Len(BALL_TEXTURES) * BALLS_PER_TEXTURE
        cfg == [zOffset |-> Get(options, "zOffset", 0),
                ballCount |-> Get(options, "ballCount", defaultBallCount),
                overlayId |-> Get(options, "overlayId",
                                  "neoball-balls-overlay-" \o ToString(instanceId))]
    IN [counter |-> counter,
        overlay |-> [instanceId |-> instanceId, options |-> DOMAIN options,
                     config |-> cfg, containerId |-> cfg.overlayId, phase |-> "loading",
                     textures |-> <<>>, balls |-> <<>>,
                     clock |-> [running |-> FALSE, autoStart |-> TRUE, age |-> 0],
                     pointer |-> 0, hasPointer |-> FALSE,
                     pointerBox |-> [x |-> Away, z |-> cfg.zOffset]]]

Overlay_constructor(counter, options) ==
    LET instanceId == counter + 1
        defaultBallCount == Len(BALL_TEXTURES) * BALLS_PER_TEXTURE
        cfg == [zOffset |-> Get(options, "zOffset", 0),
                ballCount |-> Get(options, "ballCount", defaultBallCount),
                overlayId |-> Get(options, "overlayId",
                                  "neoball-balls-overlay-" \o ToString(instanceId))]
    IN [counter |-> instanceId,
        overlay |-> [instanceId |-> instanceId, options |-> DOMAIN options,
                     config |-> cfg, containerId |-> cfg.overlayId, phase |-> "loading",
                     textures |-> <<>>, balls |-> <<>>,
                     clock |-> [running |-> FALSE, autoStart |-> TRUE, age |-> 0],
                     pointer |-> 0, hasPointer |-> FALSE,
                     pointerBox |-> [x |-> Away, z |-> cfg.zOffset]]]

(* loadAllTextures(): the textures that loaded, in the order of            *)
(* BALL_TEXTURES; a texture is named by its place in BALL_TEXTURES.        *)
loadAllTextures(miss) ==
    LET Loaded(i) == i \notin miss
    IN SelectSeq([i \in 1..Len(BALL_TEXTURES) |-> i], Loaded)

Swap(seq, i, j) == [seq EXCEPT ![i] = seq[j], ![j] = seq[i]]

(* The shuffle loop of buildTextureSequence, at 0-based index i, with the  *)
(* d-th draw of the random stream.                                         *)
RECURSIVE ShuffleFromMutCopy(_, _, _, _)
ShuffleFromMutCopy(seq, i, seed, d) ==
    IF i < 1 THEN seq
    ELSE LET j == Rnd(seed, d, i + 1)
         IN ShuffleFromMutCopy([seq EXCEPT ![i + 1] = seq[j + 1]], i - 1, seed, d + 1)

RECURSIVE ShuffleFrom(_, _, _, _)
ShuffleFrom(seq, i, seed, d) ==
    IF i < 1 THEN seq
    ELSE LET j == Rnd(seed, d, i + 1)
         IN ShuffleFrom(Swap(seq, i + 1, j + 1), i - 1, seed, d + 1)

(* buildTextureSequence(): every texture index BALLS_PER_TEXTURE times,    *)
(* shuffled.                                                               *)
buildTextureSequence(textures, seed) ==
    LET sequence == [k \in 1..(Len(textures) * BALLS_PER_TEXTURE) |->
                        (k - 1) \div BALLS_PER_TEXTURE]
    IN ShuffleFrom(sequence, Len(sequence) - 1, seed, 0)

(* createBalls(): the balls of an overlay o whose textures are loaded. *)
Overlay_createBalls(o, seed) ==
    LET textureSequence == buildTextureSequence(o.textures, seed)
        ballCount == Min(o.config.ballCount, Len(textureSequence))
        z == o.config.zOffset
        drawn == Len(textureSequence)
    IN [i \in 1..ballCount |->
          LET x == Rnd(seed, drawn + 2 * i, 2)
              y == Rnd(seed, drawn + 2 * i + 1, 2)
              textureIndex == textureSequence[i]
          IN [index |-> i - 1, textureIndex |-> textureIndex,
              map |-> o.textures[textureIndex + 1],
              sprite |-> [x |-> x, y |-> y, z |-> z],
              body |-> [x |-> x, y |-> y, z |-> z]]]

(* A sample of what world.step can compute for n bodies near depth z. *)
Overlay_StepResults(n, z) ==
    { [i \in 1..n |-> [x |-> (k + i) % 2, y |-> (m + i) % 2, z |-> z + dz]] :
        k \in Vec, m \in Vec, dz \in Vec }

Overlay_Outcomes(o) ==
    IF Min(ClockGetDelta(o.clock).diff, DtCap) = 0
    THEN {[i \in 1..Len(o.balls) |-> o.balls[i].body]}
    ELSE Overlay_StepResults(Len(o.balls), o.config.zOffset)

(* animate(): one frame of overlay o. *)
Overlay_animate(o, outcome) ==
    LET d == ClockGetDelta(o.clock)
        dt == Min(d.diff, DtCap)
        stepped == [i \in 1..Len(o.balls) |->
                      IF dt > 0 THEN [o.balls[i] EXCEPT !.body = outcome[i]]
                      ELSE o.balls[i]]
        synced == [i \in 1..Len(stepped) |->
                      [stepped[i] EXCEPT !.sprite = [x |-> stepped[i].body.x,
                                                     y |-> stepped[i].body.y,
                                                     z |-> o.config.zOffset]]]
    IN [o EXCEPT !.clock = d.clock,
                 !.balls = synced,
                 !.pointerBox = [x |-> IF o.hasPointer THEN o.pointer ELSE Away,
                                 z |-> o.config.zOffset]]

OverlayFrame(d) == [stepped |-> TRUE, synced |-> TRUE, rendered |-> TRUE,
                    scheduled |-> 1, delta |-> d, visibleTime |-> 0, hiddenTime |-> 0]

physVars == <<config, phase, balls, scene, world, selectedBall, isDragging, lastMouse,
              dragVelocity, clock, hidden, listeners, rafPending, containerAttached,
              destroyed, hiddenTime>>

(* new NeoballBallsOverlay(options) *)
OverlayConstruct ==
    /\ script = "overlay" /\ Len(overlays) < page.overlays
    /\ \E options \in page.options :
         LET r == Overlay_constructor(OVERLAY_INSTANCE_ID, options)
         IN /\ OVERLAY_INSTANCE_ID' = r.counter
            /\ overlays' = Append(overlays, r.overlay)
            /\ last' = Did("overlay.constructor", Len(overlays) + 1, FALSE, NoFrame)
    /\ UNCHANGED <<env, physVars, elapsed>>

(* init() of overlay n goes on once loadAllTextures() has settled:         *)
(* createBalls, bindEvents and the first animate().                        *)
OverlayTexturesLoaded ==
    /\ script = "overlay"
    /\ \E n \in 1..Len(overlays), seed \in 0..MaxShuffleSeed :
         /\ overlays[n].phase = "loading"
         /\ LET loaded == [overlays[n] EXCEPT !.textures = loadAllTextures(missing)]
                made == [loaded EXCEPT !.balls = Overlay_createBalls(loaded, seed),
                                       !.phase = "ready"]
            IN \E outcome \in Overlay_Outcomes(made) :
                 /\ overlays' = [overlays EXCEPT ![n] = Overlay_animate(made, outcome)]
                 /\ last' = Did("overlay.animate", n, FALSE,
                                OverlayFrame(ClockGetDelta(made.clock).diff))
    /\ elapsed' = 0
    /\ UNCHANGED <<env, OVERLAY_INSTANCE_ID, physVars>>

OverlayAnimate ==
    /\ script = "overlay"
    /\ \E n \in 1..Len(overlays) :
         /\ overlays[n].phase = "ready"
         /\ \E outcome \in Overlay_Outcomes(overlays[n]) :
              /\ overlays' = [overlays EXCEPT ![n] = Overlay_animate(overlays[n], outcome)]
              /\ last' = Did("overlay.animate", n, FALSE,
                             OverlayFrame(ClockGetDelta(overlays[n].clock).diff))
    /\ elapsed' = 0
    /\ UNCHANGED <<env, OVERLAY_INSTANCE_ID, physVars>>

(* _onMove (mousemove, mousedown on window) and _onTouchMove of every      *)
(* overlay that has bound its events.                                      *)
Overlay_onMove(o, p) ==
    IF o.phase = "ready" THEN [o EXCEPT !.pointer = p, !.hasPointer = TRUE] ELSE o

Overlay_onTouchMove(o, touches) ==
    IF Len(touches) > 0 THEN Overlay_onMove(o, touches[1]) ELSE o

OverlayMouseMove ==
    /\ script = "overlay"
    /\ \E p \in Vec, type \in {"mousemove", "mousedown"} :
         /\ overlays' = [n \in 1..Len(overlays) |-> Overlay_onMove(overlays[n], p)]
         /\ last' = Did(type, 0, \E n \in 1..Len(overlays) : overlays[n].phase = "ready",
                        NoFrame)
    /\ UNCHANGED <<env, OVERLAY_INSTANCE_ID, physVars, elapsed>>

OverlayTouchMove ==
    /\ script = "overlay"
    /\ \E touches \in {<<>>} \cup {<<p>> : p \in Vec} :
         /\ overlays' = [n \in 1..Len(overlays) |->
                            Overlay_onTouchMove(overlays[n], touches)]
         /\ last' = Did("touchmove", 0,
                        \E n \in 1..Len(overlays) : overlays[n].phase = "ready", NoFrame)
    /\ UNCHANGED <<env, OVERLAY_INSTANCE_ID, physVars, elapsed>>

---------------------------------------------------------------------------
(* The state after new NeoballPhysics(options): createContainer,           *)
(* createScene, createPhysicsWorld and createBoundaries have run,          *)
(* loadTexture is pending.  The tab may have been opened in the background.*)
NoOverlays ==
    /\ OVERLAY_INSTANCE_ID = 0
    /\ overlays = <<>>

PhysicsInit ==
    /\ script = "physics"
    /\ page = [overlays |-> 0, options |-> {}]
    /\ missing = {}
    /\ NoOverlays
    /\ config \in [ballCount : 1..MaxBalls]
    /\ phase = "loading"
    /\ balls = <<>>
    /\ scene = Lights
    /\ world = Walls
    /\ selectedBall = 0
    /\ isDragging = FALSE
    /\ lastMouse = 0
    /\ dragVelocity = 0
    /\ clock = [running |-> FALSE, autoStart |-> TRUE, age |-> 0]
    /\ hidden \in BOOLEAN
    /\ listeners = {}
    /\ rafPending = 0
    /\ containerAttached = TRUE
    /\ destroyed = FALSE
    /\ elapsed = 0
    /\ hiddenTime = 0
    /\ last = Did("constructor", 0, FALSE, NoFrame)

(* A page that loaded balls-overlay.js and has made no overlay yet. *)
OverlayInit(n, options, miss) ==
    /\ script = "overlay"
    /\ page = [overlays |-> n, options |-> options]
    /\ missing \in miss
    /\ NoOverlays
    /\ config = [ballCount |-> 0]
    /\ phase = "none"
    /\ balls = <<>>
    /\ scene = {}
    /\ world = {}
    /\ selectedBall = 0
    /\ isDragging = FALSE
    /\ lastMouse = 0
    /\ dragVelocity = 0
    /\ clock = [running |-> FALSE, autoStart |-> TRUE, age |-> 0]
    /\ hidden = FALSE
    /\ listeners = {}
    /\ rafPending = 0
    /\ containerAttached = FALSE
    /\ destroyed = FALSE
    /\ elapsed = 0
    /\ hiddenTime = 0
    /\ last = Did("load", 0, FALSE, NoFrame)

---------------------------------------------------------------------------
(* The whole page: either script, every operation.  The specifications     *)
(* after it keep the operations of one concern each.                       *)
Init ==
    \/ PhysicsInit
    \/ OverlayInit(MaxOverlays,
                   {a @@ b @@ c : a \in Option("overlayId", {"ballsBack", "ballsFront"}),
                                  b \in Option("zOffset", {-1, 1}),
                                  c \in Option("ballCount", 0..MaxBallCount)},
                   SUBSET (1..Len(BALL_TEXTURES)))

Next ==
    \/ TextureLoaded
    \/ Animate
    \/ Tick
    \/ AddBall
    \/ RemoveBall
    \/ Destroy
    \/ MouseDown
    \/ TouchStart
    \/ MouseMove
    \/ TouchMove
    \/ MouseUp
    \/ TouchEnd
    \/ Resize
    \/ VisibilityChange
    \/ OverlayConstruct
    \/ OverlayTexturesLoaded
    \/ OverlayAnimate
    \/ OverlayMouseMove
    \/ OverlayTouchMove

Spec == Init /\ [][Next]_vars

(* The public API: balls come and go, frames run, the instance is destroyed. *)
LifeNext ==
    \/ TextureLoaded
    \/ Animate
    \/ AddBall
    \/ RemoveBall
    \/ Destroy
LifeSpec == PhysicsInit /\ [][LifeNext]_vars

(* The listeners on window and document, before and after destroy(). *)
ListenerNext ==
    \/ TextureLoaded
    \/ Destroy
    \/ MouseMove
    \/ TouchMove
    \/ MouseUp
    \/ TouchEnd
    \/ Resize
    \/ VisibilityChange
ListenerSpec == PhysicsInit /\ [][ListenerNext]_vars

(* Frames of either script, as time passes and the tab is hidden and shown. *)
FrameInit ==
    \/ PhysicsInit
    \/ OverlayInit(1, {a @@ b : a \in Option("zOffset", {1}),
                                b \in {("ballCount" :> n) : n \in 1..MaxBalls}},
                   {{}, {2}})
FrameNext ==
    \/ TextureLoaded
    \/ Animate
    \/ Tick
    \/ AddBall
    \/ RemoveBall
    \/ VisibilityChange
    \/ OverlayConstruct
    \/ OverlayTexturesLoaded
    \/ OverlayAnimate
    \/ OverlayMouseMove
    \/ OverlayTouchMove
FrameSpec == FrameInit /\ [][FrameNext]_vars

(* Dragging: pointer input on the canvas and the window, between frames. *)
PointerNext ==
    \/ TextureLoaded
    \/ Animate
    \/ Tick
    \/ MouseDown
    \/ TouchStart
    \/ MouseMove
    \/ MouseUp
PointerSpec == PhysicsInit /\ [][PointerNext]_vars

(* One overlay, whatever ballCount the page asks for and whichever         *)
(* textures fail to load.                                                  *)
TextureInit ==
    OverlayInit(1, Option("ballCount", 0..MaxBallCount), SUBSET (1..Len(BALL_TEXTURES)))
TextureNext ==
    \/ OverlayConstruct
    \/ OverlayTexturesLoaded
TextureSpec == TextureInit /\ [][TextureNext]_vars

(* Several overlays on one page, with and without an overlayId option. *)
IdInit ==
    OverlayInit(MaxOverlays,
                {a @@ b : a \in Option("overlayId", {"ballsBack", "ballsFront",
                                                     "neoball-balls-overlay-1"}),
                          b \in Option("zOffset", {-1, 1})},
                {{}})
IdNext == OverlayConstruct
IdSpec == IdInit /\ [][IdNext]_vars

---------------------------------------------------------------------------
(* Properties *)

(* C1: at the end of every frame that is not skipped because the document  *)
(* is hidden, the world has been stepped and every ball's render object    *)
(* has the transform of its own body: mesh position and quaternion equal   *)
(* the body's (NeoballPhysics); sprite x and y equal the body's and sprite *)
(* z is config.zOffset (NeoballBallsOverlay).                              *)
C1_FrameSyncsRenderObjects ==
    /\ (script = "physics" /\ last.op = "animate" /\ ~hidden) =>
          /\ last.frame.stepped
          /\ \A i \in 1..Len(balls) :
                /\ balls[i].mesh.position = balls[i].body.position
                /\ balls[i].mesh.quaternion = balls[i].body.quaternion
    /\ (script = "overlay" /\ last.op = "overlay.animate") =>
          LET o == overlays[last.ret]
          IN \A i \in 1..Len(o.balls) :
                /\ o.balls[i].sprite.x = o.balls[i].body.x
                /\ o.balls[i].sprite.y = o.balls[i].body.y
                /\ o.balls[i].sprite.z = o.config.zOffset

(* A frame in which time had passed has moved two balls to different places. *)
C1_Witness ==
    /\ script = "physics" /\ last.op = "animate" /\ ~hidden
    /\ last.frame.delta > 0
    /\ Len(balls) >= 2
    /\ balls[1].body.position # balls[2].body.position
    /\ balls[1].mesh.position = balls[1].body.position

(* C2: every addBall() and removeBall() returns getBallCount() as it is    *)
(* right after the call; addBall adds one ball, one body to the world and  *)
(* one mesh to the scene; removeBall removes the ball added last, and on   *)
(* an instance without balls changes nothing and returns 0.                *)
C2_AddRemoveCount ==
    [][ /\ last'.op = "addBall" =>
            /\ Len(balls') = Len(balls) + 1
            /\ last'.ret = Len(balls')
            /\ Cardinality(world') = Cardinality(world) + 1
            /\ Cardinality(scene') = Cardinality(scene) + 1
        /\ last'.op = "removeBall" =>
            /\ last'.ret = Len(balls')
            /\ last'.ret >= 0
            /\ IF Len(balls) = 0
               THEN balls' = balls /\ scene' = scene /\ world' = world /\ last'.ret = 0
               ELSE /\ balls' = SubSeq(balls, 1, Len(balls) - 1)
                    /\ Len(balls') = Len(balls) - 1
      ]_vars

(* removeBall() has just taken the second of two balls away. *)
C2_Witness ==
    /\ last.op = "removeBall" /\ last.ret = 1 /\ Len(balls) = 1
    /\ Cardinality(world) = Cardinality(Walls) + 1

(* C3: once destroy() has returned, no resize, mousemove, mouseup,         *)
(* touchmove, touchend or visibilitychange event invokes a handler of the  *)
(* instance.                                                               *)
C3_NoHandlerAfterDestroy ==
    ~ ( /\ destroyed
        /\ last.op \in {"resize", "mousemove", "mouseup", "touchmove", "touchend",
                        "visibilitychange"}
        /\ last.invoked )

(* C4: right after destroy() no ball mesh is in the scene, no ball body is *)
(* in the world and the container is detached.                             *)
C4_DestroyCleansUp ==
    last.op = "destroy" =>
        /\ \A i \in 1..Len(balls) :
              MeshOf(balls[i]) \notin scene /\ BodyOf(balls[i]) \notin world
        /\ scene = Lights
        /\ world = Walls
        /\ ~containerAttached

(* destroy() was called on an instance holding balls. *)
C4_Witness ==
    last.op = "destroy" /\ Len(balls) >= 2 /\ phase = "ready"

(* C5: a frame run while the document is hidden steps, syncs and renders   *)
(* nothing and requests exactly one frame; a frame run while it is visible *)
(* feeds the step no more than the time that passed while visible.         *)
C5_PausedWhileHidden ==
    last.op = "animate" =>
        /\ rafPending = 1
        /\ hidden => /\ ~last.frame.stepped /\ ~last.frame.synced
                     /\ ~last.frame.rendered /\ last.frame.scheduled = 1
        /\ ~hidden => last.frame.delta <= last.frame.visibleTime

(* The first step after the tab was hidden for a while and shown again. *)
C5_Witness ==
    /\ last.op = "animate" /\ ~hidden /\ last.frame.stepped
    /\ last.frame.hiddenTime > 0
    /\ clock.running /\ ~clock.autoStart

(* The balls of overlay o that show texture index t. *)
BallsWithTexture(o, t) == {i \in 1..Len(o.balls) : o.balls[i].textureIndex = t}

C7_DistinctInstances ==
    \A i, j \in 1..Len(overlays) :
        i < j =>
            /\ overlays[i].instanceId < overlays[j].instanceId
            /\ ("overlayId" \notin overlays[i].options
                    /\ "overlayId" \notin overlays[j].options) =>
                  overlays[i].containerId # overlays[j].containerId

(* Two overlays made without an overlayId option. *)
C7_Witness ==
    /\ Len(overlays) >= 2
    /\ "overlayId" \notin overlays[1].options
    /\ "overlayId" \notin overlays[2].options
    /\ overlays[2].containerId = "neoball-balls-overlay-2"

(* C8: a pointer-down or touch-start whose ray hits balls selects the      *)
(* nearest, sets isDragging, wakes its body and zeroes its velocities; one *)
(* that hits none leaves selectedBall, isDragging and all velocities.      *)
C8_PointerDownSelects ==
    [][ (/\ last'.op \in {"mousedown", "touchstart"}
         /\ last'.invoked
         /\ elapsed' = elapsed) =>
            IF Len(last'.hits) > 0
            THEN /\ selectedBall' = last'.hits[1]
                 /\ isDragging'
                 /\ \E i \in 1..Len(balls') : balls'[i].id = selectedBall'
                 /\ \A i \in 1..Len(balls') :
                       balls'[i].id = selectedBall' =>
                           /\ ~balls'[i].body.sleeping
                           /\ balls'[i].body.velocity = 0
                           /\ balls'[i].body.angularVelocity = 0
            ELSE /\ selectedBall' = selectedBall
                 /\ isDragging' = isDragging
                 /\ \A i \in 1..Len(balls) :
                       /\ balls'[i].body.velocity = balls[i].body.velocity
                       /\ balls'[i].body.angularVelocity = balls[i].body.angularVelocity
      ]_vars

(* A pointer-down whose ray went through two balls. *)
C8_Witness ==
    /\ last.op = "mousedown" /\ last.invoked
    /\ Len(last.hits) >= 2
    /\ selectedBall = last.hits[1]
    /\ isDragging

=============================================================================
